---- MODULE Spec2Model ----
(***************************************************************************)
(* Model of MolecularSystem (src/src/lib.rs): the particle store, the      *)
(* animation clock, the camera-hash change detector, the visibility / LOD  *)
(* evaluator with its cache, and the spatial chunk summary.                *)
(*                                                                         *)
(* Numbers.  Every f32 of the program is a fixed-point integer counting    *)
(* 1/Scale units (Scale = 2000, so 1.0 is 2000 and the camera-hash         *)
(* quantisation step 0.001 is 2).  Products and quotients round toward     *)
(* zero; sqrt is the integer square root; cos and sin are the Taylor       *)
(* polynomial evaluated in the same fixed point.  usize/u32 values are     *)
(* plain integers.  A u64 hash is the set of its one-bits (0..63), so xor  *)
(* is symmetric difference and << drops the bits shifted past bit 63.      *)
(***************************************************************************)
EXTENDS Integers, Sequences, FiniteSets, TLC

VARIABLES all_atoms, total_atom_count, grid_size, time, animation_speed,
          current_camera_hash, cached_visible_atoms,
          last, hist, loaded, probe

vars == <<all_atoms, total_atom_count, grid_size, time, animation_speed,
          current_camera_hash, cached_visible_atoms,
          last, hist, loaded, probe>>

sysvars == <<all_atoms, total_atom_count, grid_size, time, animation_speed,
             current_camera_hash, cached_visible_atoms, last, hist, loaded>>

-----------------------------------------------------------------------------
(* Fixed-point arithmetic standing for f32 *)

Scale == 2000

\* f32::NAN: a value apart from every number of the model
NaN == 0 - 2000000000

IsNaN(a) == a = NaN

\* a > b on f32: false when either side is NaN
Gt(a, b) == ~IsNaN(a) /\ ~IsNaN(b) /\ a > b

\* a - b on f32
FSub(a, b) == IF IsNaN(a) \/ IsNaN(b) THEN NaN ELSE a - b

Abs(a) == IF a < 0 THEN 0 - a ELSE a

Sgn(a) == IF a < 0 THEN 0 - 1 ELSE 1

Max(a, b) == IF a >= b THEN a ELSE b

\* a * b of two fixed-point values
FMul(a, b) == Sgn(a) * Sgn(b) * ((Abs(a) * Abs(b)) \div Scale)

\* a / b of two fixed-point values, b # 0
FDiv(a, b) == Sgn(a) * Sgn(b) * ((Abs(a) * Scale) \div Abs(b))

\* a * (n / d) for a decimal literal n/d of the source (0.8 is 8/10)
FLit(a, n, d) == Sgn(a) * ((Abs(a) * n) \div d)

RECURSIVE IsqrtIn(_, _, _)
IsqrtIn(n, lo, hi) ==
    IF lo >= hi THEN lo
    ELSE LET mid == (lo + hi + 1) \div 2
         IN  IF mid * mid <= n THEN IsqrtIn(n, mid, hi)
                               ELSE IsqrtIn(n, lo, mid - 1)

\* f32::sqrt of a sum of products of two fixed-point values (n counts
\* 1/Scale^2 units, the result counts 1/Scale units)
Isqrt(n) == IsqrtIn(n, 0, 46340)

QuarterPi == 1571
HalfPi == 3142
Pi == 6283
TwoPi == 12566

\* Taylor polynomial of cos up to x^8, for 0 <= x <= pi/4
CosPoly(x) ==
    LET x2 == (x * x) \div Scale
        x4 == (x2 * x2) \div Scale
        x6 == (x4 * x2) \div Scale
        x8 == (x6 * x2) \div Scale
    IN  Scale - (x2 \div 2) + (x4 \div 24) - (x6 \div 720) + (x8 \div 40320)

\* Taylor polynomial of sin up to x^7, for 0 <= x <= pi/4
SinPoly(x) ==
    LET x2 == (x * x) \div Scale
        x3 == (x2 * x) \div Scale
        x5 == (x3 * x2) \div Scale
        x7 == (x5 * x2) \div Scale
    IN  x - (x3 \div 6) + (x5 \div 120) - (x7 \div 5040)

\* cos and sin on the first quadrant, 0 <= x <= pi/2
CosQ(x) == IF x <= QuarterPi THEN CosPoly(x) ELSE SinPoly(HalfPi - x)

SinQ(x) == IF x <= QuarterPi THEN SinPoly(x) ELSE CosPoly(HalfPi - x)

\* f32::cos
Cos(x) ==
    LET r == Abs(x) % TwoPi
        f == IF r > Pi THEN TwoPi - r ELSE r
    IN  IF f > HalfPi THEN 0 - CosQ(Max(Pi - f, 0)) ELSE CosQ(f)

\* f32::sin
Sin(x) ==
    LET r == x % TwoPi
        f == IF r > Pi THEN r - Pi ELSE r
        q == IF f > HalfPi THEN Max(Pi - f, 0) ELSE f
    IN  IF r > Pi THEN 0 - SinQ(q) ELSE SinQ(q)

-----------------------------------------------------------------------------
(* u64 as the set of its one-bits *)

Pow2(i) == 2 ^ i

\* (v as u64) of a non-negative integer below 2^31
Bits(n) == {i \in 0..30 : (n \div Pow2(i)) % 2 = 1}

\* h << k on u64: bits shifted past bit 63 are lost
Shl(h, k) == {b + k : b \in h} \cap (0..63)

\* a ^ b
Xor(a, b) == (a \ b) \cup (b \ a)

\* (v * m) as u64 for an f32 v: a float-to-integer cast truncates toward
\* zero and saturates, so every negative value becomes 0, and NaN becomes 0
AsU64(v, m) == IF IsNaN(v) \/ v < 0 THEN {} ELSE Bits((v * m) \div Scale)

-----------------------------------------------------------------------------
(* Particle store: load_atoms_from_file and read_all_atoms_from_source *)

BondLength == 1840

RawAtom(x, y, z, element) == [x |-> x, y |-> y, z |-> z, element |-> element]

RECURSIVE CeilCbrtFrom(_, _)
CeilCbrtFrom(count, n) ==
    IF n * n * n >= count THEN n ELSE CeilCbrtFrom(count, n + 1)

\* ((count as f32).powf(1.0/3.0).ceil() as usize).max(1), with the exact
\* cube root
atoms_per_axis(count) == Max(CeilCbrtFrom(count, 0), 1)

\* element tag of the i-th generated atom
ElementOf(i) == IF i % 4 = 0 THEN 0
                ELSE IF i % 4 = 1 THEN 1
                ELSE IF i % 4 = 2 THEN 2
                ELSE 3

\* the i-th atom (i from 0) of the generated grid
GridAtom(i, n, spacing) ==
    LET offset == 0 - (((n - 1) * spacing) \div 2)
        x_idx  == i % n
        y_idx  == (i \div n) % n
        z_idx  == i \div (n * n)
    IN  RawAtom(offset + x_idx * spacing,
                offset + y_idx * spacing,
                offset + z_idx * spacing,
                ElementOf(i))

\* read_all_atoms_from_source pushing the second atom for every count above 0
read_all_atoms_from_source_SecondAlways(count, spacing) ==
    IF count <= 2
    THEN <<RawAtom(0, 0, 0, 0)>> \o
         (IF count > 0 THEN <<RawAtom(BondLength, 0, 0, 1)>> ELSE <<>>)
    ELSE [k \in 1..count |-> GridAtom(k - 1, atoms_per_axis(count), spacing)]

\* the store after all_atoms.clear() and read_all_atoms_from_source(count)
read_all_atoms_from_source(count, spacing) ==
    IF count <= 2
    THEN <<RawAtom(0, 0, 0, 0)>> \o
         (IF count > 1 THEN <<RawAtom(BondLength, 0, 0, 1)>> ELSE <<>>)
    ELSE [k \in 1..count |-> GridAtom(k - 1, atoms_per_axis(count), spacing)]

-----------------------------------------------------------------------------
(* Change detector: calculate_camera_hash *)

SentinelHash == {}

\* calculate_camera_hash also mixing the far plane into the hash
calculate_camera_hash_WithFar(camera, fov, aspect, near, far) ==
    LET h1 == Xor({}, AsU64(camera.x, 1000))
        h2 == Xor(h1, Shl(AsU64(camera.y, 1000), 10))
        h3 == Xor(h2, Shl(AsU64(camera.z, 1000), 20))
        h4 == Xor(h3, Shl(AsU64(camera.target_x, 1000), 30))
        h5 == Xor(h4, Shl(AsU64(camera.target_y, 1000), 40))
        h6 == Xor(h5, Shl(AsU64(camera.target_z, 1000), 50))
    IN  Xor(Xor(h6, AsU64(fov, 100)), AsU64(far, 100))

calculate_camera_hash(camera, fov, aspect, near, far) ==
    LET h1 == Xor({}, AsU64(camera.x, 1000))
        h2 == Xor(h1, Shl(AsU64(camera.y, 1000), 10))
        h3 == Xor(h2, Shl(AsU64(camera.z, 1000), 20))
        h4 == Xor(h3, Shl(AsU64(camera.target_x, 1000), 30))
        h5 == Xor(h4, Shl(AsU64(camera.target_y, 1000), 40))
        h6 == Xor(h5, Shl(AsU64(camera.target_z, 1000), 50))
    IN  Xor(h6, AsU64(fov, 100))

-----------------------------------------------------------------------------
(* Visibility / LOD evaluator: recalculate_visibility_for_camera *)

\* variant: every step of the factor is taken one atom early
calculate_aggression_factor_Early(total) ==
    IF total < 1000 THEN 1
    ELSE IF total < 10000 THEN 2
    ELSE IF total < 100000 THEN 4
    ELSE IF total < 1000000 THEN 8
    ELSE IF total < 10000000 THEN 16
    ELSE 32

calculate_aggression_factor(total) ==
    IF total <= 1000 THEN 1
    ELSE IF total <= 10000 THEN 2
    ELSE IF total <= 100000 THEN 4
    ELSE IF total <= 1000000 THEN 8
    ELSE IF total <= 10000000 THEN 16
    ELSE 32

\* the thresholds 50.0, 20.0 and 10.0 times the aggression factor
point_threshold(aggression) == 50 * Scale * aggression

low_poly_threshold(aggression) == 20 * Scale * aggression

medium_poly_threshold(aggression) == 10 * Scale * aggression

\* variant: a distance equal to a threshold falls into the coarser tier
lod_level_Inclusive(distance, aggression) ==
    IF distance >= point_threshold(aggression) THEN 0
    ELSE IF distance >= low_poly_threshold(aggression) THEN 1
    ELSE IF distance >= medium_poly_threshold(aggression) THEN 2
    ELSE 3

lod_level(distance, aggression) ==
    IF Gt(distance, point_threshold(aggression)) THEN 0
    ELSE IF Gt(distance, low_poly_threshold(aggression)) THEN 1
    ELSE IF Gt(distance, medium_poly_threshold(aggression)) THEN 2
    ELSE 3

base_radius(element) ==
    IF element = 0 THEN 500
    ELSE IF element = 1 THEN 700
    ELSE IF element = 2 THEN 600
    ELSE 560

\* base_radius + 0.02 * (time + x + y + z).sin()
animated_radius(atom, t) ==
    base_radius(atom.element) + FLit(Sin(t + atom.x + atom.y + atom.z), 2, 100)

\* f32::sqrt of x^2 + y^2 + z^2: NaN when a component is NaN
Length(x, y, z) ==
    IF IsNaN(x) \/ IsNaN(y) \/ IsNaN(z) THEN NaN
    ELSE Isqrt(x * x + y * y + z * z)

view_normalized(camera) ==
    LET vx == FSub(camera.target_x, camera.x)
        vy == FSub(camera.target_y, camera.y)
        vz == FSub(camera.target_z, camera.z)
        view_length == Length(vx, vy, vz)
    IN  IF Gt(view_length, 0)
        THEN <<FDiv(vx, view_length), FDiv(vy, view_length), FDiv(vz, view_length)>>
        ELSE <<0, 0, 0 - Scale>>

AtomData(atom, radius, lod) ==
    [x |-> atom.x, y |-> atom.y, z |-> atom.z, element |-> atom.element,
     radius |-> radius, lod_level |-> lod]

\* distance from the camera position to the atom
DistanceTo(camera, atom) ==
    Length(FSub(atom.x, camera.x), FSub(atom.y, camera.y), FSub(atom.z, camera.z))

\* dot product of the view direction vn and the normalised camera-to-atom
\* vector, for an atom at non-zero distance
DotProduct(camera, vn, atom, distance) ==
    FMul(vn[1], FDiv(atom.x - camera.x, distance)) +
    FMul(vn[2], FDiv(atom.y - camera.y, distance)) +
    FMul(vn[3], FDiv(atom.z - camera.z, distance))

\* one iteration of the loop over all_atoms: the record pushed for the
\* atom, or nothing when the iteration ends in a continue
VisitAtom(atom, camera, fov, vn, max_distance, aggression, t) ==
    LET distance == DistanceTo(camera, atom)
        fov_threshold == Cos(FLit(fov, 6, 10))
    IN  IF Gt(distance, max_distance) THEN <<>>
        ELSE IF Gt(distance, 0) /\ DotProduct(camera, vn, atom, distance) < fov_threshold
        THEN <<>>
        ELSE <<AtomData(atom, animated_radius(atom, t),
                        lod_level(distance, aggression))>>

\* the iterations for the atoms lo..hi with the records of later atoms put
\* before those of earlier ones
RECURSIVE VisitRange_Reversed(_, _, _, _, _, _, _, _, _)
VisitRange_Reversed(atoms, lo, hi, camera, fov, vn, max_distance, aggression, t) ==
    IF lo > hi THEN <<>>
    ELSE IF lo = hi
    THEN VisitAtom(atoms[lo], camera, fov, vn, max_distance, aggression, t)
    ELSE LET mid == (lo + hi) \div 2
         IN  VisitRange_Reversed(atoms, mid + 1, hi, camera, fov, vn, max_distance, aggression, t)
             \o VisitRange_Reversed(atoms, lo, mid, camera, fov, vn, max_distance, aggression, t)

\* the iterations of the loop for the atoms lo..hi, in that order
RECURSIVE VisitRange(_, _, _, _, _, _, _, _, _)
VisitRange(atoms, lo, hi, camera, fov, vn, max_distance, aggression, t) ==
    IF lo > hi THEN <<>>
    ELSE IF lo = hi
    THEN VisitAtom(atoms[lo], camera, fov, vn, max_distance, aggression, t)
    ELSE LET mid == (lo + hi) \div 2
         IN  VisitRange(atoms, lo, mid, camera, fov, vn, max_distance, aggression, t)
             \o VisitRange(atoms, mid + 1, hi, camera, fov, vn, max_distance, aggression, t)

\* variant: the records pushed, in the reverse of the order of the store
VisitAll_Reversed(atoms, camera, fov, vn, max_distance, aggression, t) ==
    VisitRange_Reversed(atoms, 1, Len(atoms), camera, fov, vn, max_distance, aggression, t)

\* the loop over all_atoms: the records pushed, in the order of the store
VisitAll(atoms, camera, fov, vn, max_distance, aggression, t) ==
    VisitRange(atoms, 1, Len(atoms), camera, fov, vn, max_distance, aggression, t)

\* variant: atoms are kept up to the far plane itself
recalculate_visibility_for_camera_FullFar(atoms, total, t, camera, fov, aspect, near, far) ==
    VisitAll(atoms, camera, fov, view_normalized(camera), far,
             calculate_aggression_factor(total), t)

\* the value assigned to cached_visible_atoms by one run of the evaluator
recalculate_visibility_for_camera(atoms, total, t, camera, fov, aspect, near, far) ==
    VisitAll(atoms, camera, fov, view_normalized(camera), FLit(far, 8, 10),
             calculate_aggression_factor(total), t)

-----------------------------------------------------------------------------
(* Bulk read paths: get_all_atom_positions and get_spatial_chunks *)

RECURSIVE FlatPositions(_)
FlatPositions(atoms) ==
    IF atoms = <<>> THEN <<>>
    ELSE <<Head(atoms).x, Head(atoms).y, Head(atoms).z,
           Head(atoms).element * Scale>> \o FlatPositions(Tail(atoms))

\* x, y, z and (element as f32) of every stored atom, in store order
get_all_atom_positions(atoms) == FlatPositions(atoms)

MinOf(S) == CHOOSE m \in S : \A v \in S : m <= v

MaxOf(S) == CHOOSE m \in S : \A v \in S : m >= v

\* min_pos and max_pos of a non-empty store
min_pos(atoms) ==
    <<MinOf({atoms[i].x : i \in 1..Len(atoms)}),
      MinOf({atoms[i].y : i \in 1..Len(atoms)}),
      MinOf({atoms[i].z : i \in 1..Len(atoms)})>>

max_pos(atoms) ==
    <<MaxOf({atoms[i].x : i \in 1..Len(atoms)}),
      MaxOf({atoms[i].y : i \in 1..Len(atoms)}),
      MaxOf({atoms[i].z : i \in 1..Len(atoms)})>>

\* ((max_pos.0 - min_pos.0) / chunk_size).ceil().max(1.0) as usize
chunks_per_axis(atoms, chunk_size) ==
    LET extent == max_pos(atoms)[1] - min_pos(atoms)[1]
    IN  Max((extent + chunk_size - 1) \div chunk_size, 1)

\* min + (idx as f32 + 0.5) * chunk_size
ChunkCenter(lo, idx, chunk_size) == lo + ((2 * idx + 1) * chunk_size) \div 2

\* InChunk with the chunk faces excluded
InChunk_Strict(atom, cx, cy, cz, chunk_size) ==
    /\ Abs(atom.x - cx) < chunk_size \div 2
    /\ Abs(atom.y - cy) < chunk_size \div 2
    /\ Abs(atom.z - cz) < chunk_size \div 2

\* the test that counts an atom into the chunk centred at <<cx, cy, cz>>
InChunk(atom, cx, cy, cz, chunk_size) ==
    /\ Abs(atom.x - cx) <= chunk_size \div 2
    /\ Abs(atom.y - cy) <= chunk_size \div 2
    /\ Abs(atom.z - cz) <= chunk_size \div 2

\* atom_count of the chunk with grid index <<x, y, z>>
ChunkAtomCount(atoms, chunk_size, x, y, z) ==
    LET lo == min_pos(atoms)
    IN  Cardinality({i \in 1..Len(atoms) :
            InChunk(atoms[i], ChunkCenter(lo[1], x, chunk_size),
                              ChunkCenter(lo[2], y, chunk_size),
                              ChunkCenter(lo[3], z, chunk_size), chunk_size)})

\* the eight floats pushed for one chunk, nothing for an empty chunk
ChunkRecord(atoms, chunk_size, x, y, z) ==
    LET lo == min_pos(atoms)
        atom_count == ChunkAtomCount(atoms, chunk_size, x, y, z)
    IN  IF atom_count > 0
        THEN <<ChunkCenter(lo[1], x, chunk_size),
               ChunkCenter(lo[2], y, chunk_size),
               ChunkCenter(lo[3], z, chunk_size),
               chunk_size, atom_count * Scale, 0, 0, 0>>
        ELSE <<>>

\* the loops for x, for y, for z from cell number k (x outermost)
RECURSIVE ChunksFrom(_, _, _, _)
ChunksFrom(atoms, chunk_size, n, k) ==
    IF k >= n * n * n THEN <<>>
    ELSE ChunkRecord(atoms, chunk_size, k \div (n * n), (k \div n) % n, k % n)
         \o ChunksFrom(atoms, chunk_size, n, k + 1)

get_spatial_chunks(atoms, chunk_size) ==
    IF atoms = <<>> THEN <<>>
    ELSE ChunksFrom(atoms, chunk_size, chunks_per_axis(atoms, chunk_size), 0)

-----------------------------------------------------------------------------
(* Legacy small-molecule accessors *)

None == [some |-> FALSE]

Some(v) == [some |-> TRUE, val |-> v]

get_atom_count(total) == IF total <= 2 THEN total ELSE 0

\* variant: 0.18 * time.sin() * 0.5 for index 1, without the + 1.0
animated_offset_NoBias(index, t) ==
    IF index = 1 THEN FLit(FMul(360, Sin(t)), 5, 10) ELSE 0

\* 0.18 * (time.sin() + 1.0) * 0.5 for index 1, else 0.0
animated_offset(index, t) ==
    IF index = 1 THEN FLit(FMul(360, Sin(t) + Scale), 5, 10) ELSE 0

get_atom_data(atoms, total, t, index) ==
    IF total <= 2 /\ index < Len(atoms)
    THEN LET atom == atoms[index + 1]
         IN  Some([x |-> atom.x + animated_offset(index, t),
                   y |-> atom.y, z |-> atom.z, element |-> atom.element,
                   radius |-> IF atom.element = 0 THEN 500 ELSE 700,
                   lod_level |-> 3])
    ELSE None

get_bond_count(total) == IF total <= 2 THEN 1 ELSE 0

get_bond_data(atoms, total, t, index) ==
    IF total <= 2 /\ index = 0
    THEN LET h_atom == get_atom_data(atoms, total, t, 0)
             f_atom == get_atom_data(atoms, total, t, 1)
         IN  IF ~h_atom.some \/ ~f_atom.some THEN None
             ELSE Some([start_x |-> h_atom.val.x, start_y |-> h_atom.val.y,
                        start_z |-> h_atom.val.z,
                        end_x |-> f_atom.val.x, end_y |-> f_atom.val.y,
                        end_z |-> f_atom.val.z])
    ELSE None

-----------------------------------------------------------------------------
(* Inputs of the calls *)

MaxCount == 8
MaxTime == 3142

\* requested particle counts: the small-molecule cases and a full grid
Counts == (0..2) \cup {MaxCount}

\* requested particle counts of the store specification: also a grid with
\* three atoms per axis
StoreCounts == (0..2) \cup (8..(MaxCount + 1))

\* grid spacings 1.0 and 2.0
GridSizes == {2000, 4000}

\* delta_time 0.0 and pi/2
Deltas == {0, 3142}

\* animation speeds 1.0 and 0.0 (paused)
Speeds == {0, 2000}

\* chunk sizes 1.0 and 2.0
ChunkSizes == {2000, 4000}

\* indexes passed to the legacy accessors
Indexes == 0..2

Camera(x, y, z, tx, ty, tz) ==
    [x |-> x, y |-> y, z |-> z, target_x |-> tx, target_y |-> ty, target_z |-> tz]

\* Camera::new(): at (0, 2, 5) looking at the origin
DefaultCamera == Camera(0, 4000, 10000, 0, 0, 0)

\* the default camera moved by 0.0005 along x, below the hash quantisation
JitterCamera == Camera(1, 4000, 10000, 0, 0, 0)

\* at (0.075, 0, -5) looking at the origin
BackCamera == Camera(150, 0, 0 - 10000, 0, 0, 0)

\* at the origin, which is also its target
OriginCamera == Camera(0, 0, 0, 0, 0, 0)

\* the default camera with a NaN x coordinate
NaNCamera == Camera(NaN, 4000, 10000, 0, 0, 0)

Observer(camera, fov, aspect, near, far) ==
    [camera |-> camera, fov |-> fov, aspect |-> aspect, near |-> near, far |-> far]

\* the default camera with each of aspect, near plane, far plane and fov
\* changed alone, the jittered camera, the back camera at both far planes
\* and both fovs, the camera at the origin and the camera with a NaN
\* coordinate
Observers ==
    {Observer(DefaultCamera, 1500, 2000, 200, 200000),
     Observer(DefaultCamera, 1500, 3000, 200, 200000),
     Observer(DefaultCamera, 1500, 2000, 1000, 200000),
     Observer(DefaultCamera, 1500, 2000, 200, 13000),
     Observer(DefaultCamera, 2094, 2000, 200, 200000),
     Observer(JitterCamera, 1500, 2000, 200, 200000),
     Observer(BackCamera, 1500, 2000, 200, 200000),
     Observer(BackCamera, 1500, 2000, 200, 13000),
     Observer(BackCamera, 2094, 2000, 200, 200000),
     Observer(OriginCamera, 1500, 2000, 200, 200000),
     Observer(NaNCamera, 1500, 2000, 200, 200000)}

\* the observers passed through the legacy entry point cull_and_lod
LegacyObservers ==
    {Observer(c, 1500, 2000, 200, 200000) : c \in {DefaultCamera, BackCamera}}

NoObserver == [camera |-> "none"]

-----------------------------------------------------------------------------
(* The state machine.  last is the most recent call with what it returned  *)
(* (ran: the evaluator ran in it); hist is the most recent query, with     *)
(* fresh meaning that no tick and no load happened since; loaded is true   *)
(* once a load has been made.                                              *)

\* MolecularSystem::new()
SystemInit ==
    /\ all_atoms = <<>>
    /\ total_atom_count = 0
    /\ grid_size = 2000
    /\ time = 0
    /\ animation_speed = 2000
    /\ current_camera_hash = SentinelHash
    /\ cached_visible_atoms = <<>>
    /\ last = [op |-> "new"]
    /\ hist = [obs |-> NoObserver, ret |-> <<>>, fresh |-> FALSE]
    /\ loaded = FALSE

Init == SystemInit /\ probe = [fn |-> "none"]

\* hist after a tick: the observer of the last query is kept
Ticked == [obs |-> hist.obs, ret |-> <<>>, fresh |-> FALSE]

\* hist after a load: as after construction
Reloaded == [obs |-> NoObserver, ret |-> <<>>, fresh |-> FALSE]

\* the body of load_atoms_from_file(count) with grid spacing size
LoadBody(count, size) ==
    /\ total_atom_count' = count
    /\ all_atoms' = read_all_atoms_from_source(count, size)
    /\ current_camera_hash' = SentinelHash
    /\ cached_visible_atoms' = <<>>
    /\ hist' = Reloaded
    /\ loaded' = TRUE
    /\ UNCHANGED <<time, animation_speed, probe>>

load_atoms_from_file(count) ==
    /\ LoadBody(count, grid_size)
    /\ last' = [op |-> "load_atoms_from_file", count |-> count]
    /\ UNCHANGED grid_size

generate_atoms(count) ==
    /\ LoadBody(count, grid_size)
    /\ last' = [op |-> "generate_atoms", count |-> count]
    /\ UNCHANGED grid_size

set_grid_size(size) ==
    /\ grid_size' = size
    /\ LoadBody(total_atom_count, size)
    /\ last' = [op |-> "set_grid_size", count |-> total_atom_count]

update(delta_time) ==
    /\ time + FMul(delta_time, animation_speed) <= MaxTime
    /\ time' = time + FMul(delta_time, animation_speed)
    /\ current_camera_hash' = SentinelHash
    /\ cached_visible_atoms' = <<>>
    /\ last' = [op |-> "update", delta_time |-> delta_time]
    /\ hist' = Ticked
    /\ UNCHANGED <<all_atoms, total_atom_count, grid_size, animation_speed,
                   loaded, probe>>

\* variant: the call also invalidates the camera cache
set_animation_speed_Invalidating(speed) ==
    /\ animation_speed' = speed
    /\ current_camera_hash' = SentinelHash
    /\ cached_visible_atoms' = <<>>
    /\ last' = [op |-> "set_animation_speed"]
    /\ UNCHANGED <<all_atoms, total_atom_count, grid_size, time, hist, loaded, probe>>

set_animation_speed(speed) ==
    /\ animation_speed' = speed
    /\ last' = [op |-> "set_animation_speed"]
    /\ UNCHANGED <<all_atoms, total_atom_count, grid_size, time,
                   current_camera_hash, cached_visible_atoms, hist, loaded, probe>>

\* QueryBody without the assignment to current_camera_hash
QueryBody_HashNotStored(o, name) ==
    LET camera_hash == calculate_camera_hash(o.camera, o.fov, o.aspect, o.near, o.far)
        changed == camera_hash # current_camera_hash
    IN  /\ current_camera_hash' = current_camera_hash
        /\ cached_visible_atoms' =
              IF changed
              THEN recalculate_visibility_for_camera(all_atoms, total_atom_count,
                       time, o.camera, o.fov, o.aspect, o.near, o.far)
              ELSE cached_visible_atoms
        /\ last' = [op |-> name, ran |-> changed]
        /\ hist' = [obs |-> o, ret |-> cached_visible_atoms', fresh |-> TRUE]
        /\ UNCHANGED <<all_atoms, total_atom_count, grid_size, time,
                       animation_speed, loaded, probe>>

\* the body of get_visible_atoms_for_camera
QueryBody(o, name) ==
    LET camera_hash == calculate_camera_hash(o.camera, o.fov, o.aspect, o.near, o.far)
        changed == camera_hash # current_camera_hash
    IN  /\ current_camera_hash' = IF changed THEN camera_hash ELSE current_camera_hash
        /\ cached_visible_atoms' =
              IF changed
              THEN recalculate_visibility_for_camera(all_atoms, total_atom_count,
                       time, o.camera, o.fov, o.aspect, o.near, o.far)
              ELSE cached_visible_atoms
        /\ last' = [op |-> name, ran |-> changed]
        /\ hist' = [obs |-> o, ret |-> cached_visible_atoms', fresh |-> TRUE]
        /\ UNCHANGED <<all_atoms, total_atom_count, grid_size, time,
                       animation_speed, loaded, probe>>

get_visible_atoms_for_camera(o) == QueryBody(o, "get_visible_atoms_for_camera")

cull_and_lod(o) == QueryBody(o, "cull_and_lod")

\* a read-only call: only its argument and return value are recorded
ReadCall(name, arg, ret) ==
    /\ last' = [op |-> name, arg |-> arg, ret |-> ret]
    /\ UNCHANGED <<all_atoms, total_atom_count, grid_size, time, animation_speed,
                   current_camera_hash, cached_visible_atoms, hist, loaded, probe>>

GetAllAtomPositions ==
    ReadCall("get_all_atom_positions", 0, get_all_atom_positions(all_atoms))

GetSpatialChunks(chunk_size) ==
    ReadCall("get_spatial_chunks", chunk_size, get_spatial_chunks(all_atoms, chunk_size))

GetAtomData(index) ==
    ReadCall("get_atom_data", index,
             get_atom_data(all_atoms, total_atom_count, time, index))

GetBondData(index) ==
    ReadCall("get_bond_data", index,
             get_bond_data(all_atoms, total_atom_count, time, index))

GetAtomCount == ReadCall("get_atom_count", 0, get_atom_count(total_atom_count))

GetBondCount == ReadCall("get_bond_count", 0, get_bond_count(total_atom_count))

GetTotalAtomCount == ReadCall("get_total_atom_count", 0, total_atom_count)

\* the program: every call that changes the system, and the queries
Next ==
    \/ \E count \in Counts : load_atoms_from_file(count)
    \/ \E count \in Counts : generate_atoms(count)
    \/ \E size \in GridSizes : set_grid_size(size)
    \/ \E delta_time \in Deltas : update(delta_time)
    \/ \E speed \in Speeds : set_animation_speed(speed)
    \/ \E o \in Observers : get_visible_atoms_for_camera(o)
    \/ \E o \in LegacyObservers : cull_and_lod(o)

Spec == Init /\ [][Next]_vars

\* the observers with far plane 100
SameFarObservers == {o \in Observers : o.far = 200000}

\* the program called with one far plane in every query
NextSameFar ==
    \/ \E count \in Counts : load_atoms_from_file(count)
    \/ \E count \in Counts : generate_atoms(count)
    \/ \E size \in GridSizes : set_grid_size(size)
    \/ \E delta_time \in Deltas : update(delta_time)
    \/ \E speed \in Speeds : set_animation_speed(speed)
    \/ \E o \in SameFarObservers : get_visible_atoms_for_camera(o)
    \/ \E o \in LegacyObservers : cull_and_lod(o)

SpecSameFar == Init /\ [][NextSameFar]_vars

\* the store and its read paths: loads, the clock, and every read-only call
NextStore ==
    \/ \E count \in StoreCounts : load_atoms_from_file(count)
    \/ \E count \in StoreCounts : generate_atoms(count)
    \/ \E size \in GridSizes : set_grid_size(size)
    \/ \E delta_time \in Deltas : update(delta_time)
    \/ \E speed \in Speeds : set_animation_speed(speed)
    \/ GetAllAtomPositions
    \/ \E chunk_size \in ChunkSizes : GetSpatialChunks(chunk_size)
    \/ \E index \in Indexes : GetAtomData(index)
    \/ \E index \in Indexes : GetBondData(index)
    \/ GetAtomCount
    \/ GetBondCount
    \/ GetTotalAtomCount

SpecStore == Init /\ [][NextStore]_vars

-----------------------------------------------------------------------------
(* The aggression factor: calculate_aggression_factor applied to total     *)
(* counts on both sides of every step, and the system loaded with a grid   *)
(* of more than 1000 atoms                                                 *)

\* total counts next to every step of the factor
AggrCounts == {0, 1, 1000, 1001, 10000, 10001, 100000, 100001,
               1000000, 1000001, 10000000, 10000001}

\* requested counts of the loads: the two-particle molecule and a grid of
\* eleven atoms per axis
AggrLoadCounts == {2, 1001}

\* the default camera and the back camera, far plane 100
AggrObservers ==
    {Observer(c, 1500, 2000, 200, 200000) : c \in {DefaultCamera, BackCamera}}

InitAggr ==
    /\ SystemInit
    /\ probe \in {[fn |-> "none"]} \cup {[fn |-> "aggr", count |-> c] : c \in AggrCounts}

AggrApply ==
    /\ probe.fn = "aggr"
    /\ probe' = [fn |-> "aggr_done", count |-> probe.count,
                 factor |-> calculate_aggression_factor(probe.count)]
    /\ UNCHANGED sysvars

\* the pure application, or (when the state holds no pending application)
\* any call that changes the system or queries it
NextAggr ==
    \/ AggrApply
    \/ \E count \in AggrLoadCounts : probe.fn = "none" /\ load_atoms_from_file(count)
    \/ \E count \in AggrLoadCounts : probe.fn = "none" /\ generate_atoms(count)
    \/ \E size \in GridSizes : probe.fn = "none" /\ set_grid_size(size)
    \/ \E delta_time \in Deltas : probe.fn = "none" /\ update(delta_time)
    \/ \E speed \in Speeds : probe.fn = "none" /\ set_animation_speed(speed)
    \/ \E o \in AggrObservers : probe.fn = "none" /\ get_visible_atoms_for_camera(o)
    \/ \E o \in AggrObservers : probe.fn = "none" /\ cull_and_lod(o)

SpecAggr == InitAggr /\ [][NextAggr]_vars

-----------------------------------------------------------------------------
(* calculate_camera_hash as a pure function: one coordinate of a camera is *)
(* changed by more than the quantisation step and both hashes are taken    *)

\* 0.001, the quantisation step of the six coordinates
QuantStep == 2

\* coordinates of the cameras hashed: 0 and -1.0
HashBaseCoords == {0, 0 - 2000}

\* the values a coordinate is changed to: 0.0015, 0.0025, 1.0, 1.024,
\* 16.384, -1.0 and -2.0
HashNewCoords == {3, 5, 2000, 2048, 32768, 0 - 2000, 0 - 4000}

CameraFields == {"x", "y", "z", "target_x", "target_y", "target_z"}

HashCameras == [CameraFields -> HashBaseCoords]

InitHash ==
    /\ SystemInit
    /\ probe \in {[fn |-> "hash", camera |-> c, fov |-> 1500] : c \in HashCameras}

HashChange(field, value) ==
    /\ probe.fn = "hash"
    /\ Abs(value - probe.camera[field]) > QuantStep
    /\ LET moved == [probe.camera EXCEPT ![field] = value]
       IN  probe' = [fn |-> "hash_done", field |-> field,
                     camera |-> probe.camera, moved |-> moved,
                     before |-> calculate_camera_hash(probe.camera, probe.fov, 2000, 200, 200000),
                     after |-> calculate_camera_hash(moved, probe.fov, 2000, 200, 200000)]
    /\ UNCHANGED sysvars

NextHash == \E field \in CameraFields : \E value \in HashNewCoords : HashChange(field, value)

SpecHash == InitHash /\ [][NextHash]_vars

-----------------------------------------------------------------------------
(* lod_level and calculate_aggression_factor as pure functions: the tier   *)
(* of one distance is taken under a smaller and a larger total count       *)

\* distances 0, 5, 10, 15, 20, 30, 50, 60, 100 and 200
LodDistances == {0, 10000, 20000, 30000, 40000, 60000, 100000, 120000, 200000, 400000}

\* total counts on both sides of every step of the aggression factor
LodCounts == {500, 1000, 1001, 5000, 10000, 10001, 100001, 1000001, 10000001}

InitLod ==
    /\ SystemInit
    /\ probe \in {[fn |-> "lod", distance |-> d, smaller |-> a, larger |-> b] :
                      d \in LodDistances,
                      a \in LodCounts, b \in {c \in LodCounts : c >= 1001}}
    /\ probe.smaller < probe.larger

LodCompare ==
    /\ probe.fn = "lod"
    /\ probe' = [fn |-> "lod_done", distance |-> probe.distance,
                 smaller |-> probe.smaller, larger |-> probe.larger,
                 tier_smaller |-> lod_level(probe.distance,
                                     calculate_aggression_factor(probe.smaller)),
                 tier_larger |-> lod_level(probe.distance,
                                     calculate_aggression_factor(probe.larger))]
    /\ UNCHANGED sysvars

NextLod == LodCompare

SpecLod == InitLod /\ [][NextLod]_vars

-----------------------------------------------------------------------------
(* lod_level as a pure function of the distance: the tiers of two          *)
(* distances are taken under one aggression factor                         *)

\* the values calculate_aggression_factor can return
AggressionFactors == {1, 2, 4, 8, 16, 32}

\* multiples of the aggression factor: 0, 5, 10, 15, 20, 35, 50 and 80
\* times the factor, and the neighbours of the three thresholds
TierMultiples == {0, 10000, 19999, 20000, 20001, 30000, 39999, 40000, 40001,
                  70000, 99999, 100000, 100001, 160000}

InitTier ==
    /\ SystemInit
    /\ probe \in {[fn |-> "tier", aggression |-> a, near |-> a * m, far |-> a * n] :
                      a \in AggressionFactors, m \in TierMultiples, n \in TierMultiples}
    /\ probe.near <= probe.far

TierCompare ==
    /\ probe.fn = "tier"
    /\ probe' = [fn |-> "tier_done", aggression |-> probe.aggression,
                 near |-> probe.near, far |-> probe.far,
                 tier_near |-> lod_level(probe.near, probe.aggression),
                 tier_far |-> lod_level(probe.far, probe.aggression)]
    /\ UNCHANGED sysvars

NextTier == TierCompare

SpecTier == InitTier /\ [][NextTier]_vars

-----------------------------------------------------------------------------
(* Properties *)

QueryOps == {"get_visible_atoms_for_camera", "cull_and_lod"}

LoadOps == {"load_atoms_from_file", "generate_atoms", "set_grid_size"}

HashOf(o) == calculate_camera_hash(o.camera, o.fov, o.aspect, o.near, o.far)

\* what one run of the evaluator yields for observer o in the next state
FreshResult(o) ==
    recalculate_visibility_for_camera(all_atoms', total_atom_count', time',
        o.camera, o.fov, o.aspect, o.near, o.far)

\* C1: a query that directly follows a tick with non-zero delta and uses
\* the observer of the query before the tick returns the records the
\* evaluator computes from the store at the new clock time.
C1_TickForcesReevaluation ==
    [][(/\ last.op = "update"
        /\ last.delta_time # 0
        /\ last'.op \in QueryOps
        /\ hist'.obs = hist.obs)
       => hist'.ret = FreshResult(hist'.obs)]_vars

\* C2: the first query after construction or after a load runs the
\* evaluator, whatever observer it is made with, and returns what the
\* evaluator computes.
C2_SentinelAlwaysStale ==
    [][(/\ last.op \in LoadOps \cup {"new"}
        /\ last'.op \in QueryOps)
       => (last'.ran /\ hist'.ret = FreshResult(hist'.obs))]_vars

\* C3: a query whose observer has the fingerprint of the previous query's
\* observer, with no tick and no load in between, does not run the
\* evaluator and returns the sequence the previous query returned.
C3_CacheReuse ==
    [][(/\ hist.fresh
        /\ last'.op \in QueryOps
        /\ HashOf(hist'.obs) = HashOf(hist.obs))
       => (~last'.ran /\ hist'.ret = hist.ret)]_vars

\* C3 witness: the jittered camera was served, without a rebuild, a
\* non-empty cached sequence.
C3_Witness ==
    /\ last.op \in QueryOps
    /\ ~last.ran
    /\ hist.obs.camera = JitterCamera
    /\ hist.ret # <<>>

\* C4: changing one coordinate of the camera by more than the quantisation
\* step, all else equal, changes the fingerprint.
C4_OneFieldChangesHash ==
    probe.fn = "hash_done" => probe.before # probe.after

\* C5: a query with the position, target and fov of the previous query
\* (aspect, near and far free), with no tick and no load in between, has
\* the same fingerprint, does not rebuild and returns the cached sequence.
C5_AspectNearFarIgnored ==
    [][(/\ hist.fresh
        /\ last'.op \in QueryOps
        /\ hist'.obs.camera = hist.obs.camera
        /\ hist'.obs.fov = hist.obs.fov)
       => (/\ HashOf(hist'.obs) = HashOf(hist.obs)
           /\ ~last'.ran
           /\ hist'.ret = hist.ret
           /\ cached_visible_atoms' = cached_visible_atoms)]_vars

\* C5 witness: a query with the far plane 6.5 was served, without a
\* rebuild, the whole grid as cached under the far plane 100.
C5_Witness ==
    /\ last.op \in QueryOps
    /\ ~last.ran
    /\ hist.obs.far = 13000
    /\ Len(all_atoms) > 2
    /\ Len(hist.ret) = Len(all_atoms)

\* C6: after a load with requested count 0 the store is empty and the
\* reads return an empty sequence or an absent result.
C6_LoadZeroEmpty ==
    (loaded /\ total_atom_count = 0)
    => (/\ all_atoms = <<>>
        /\ last.op \in {"get_all_atom_positions", "get_spatial_chunks"}
              => last.ret = <<>>
        /\ last.op \in {"get_atom_data", "get_bond_data"} => last.ret = None)

TwoParticles == <<RawAtom(0, 0, 0, 0), RawAtom(1840, 0, 0, 1)>>

C8_LargerCountNeverFiner ==
    probe.fn = "lod_done" => probe.tier_larger <= probe.tier_smaller

\* the store holds the 8 corners of the cube of edge 2 centred on the origin
IsCube2 ==
    /\ Len(all_atoms) = 8
    /\ {<<all_atoms[i].x, all_atoms[i].y, all_atoms[i].z>> : i \in 1..8}
         = {0 - 2000, 2000} \X {0 - 2000, 2000} \X {0 - 2000, 2000}

\* the atom counts of the chunk records of a flat chunk vector
ChunkCounts(flat) == [k \in 1..(Len(flat) \div 8) |-> flat[8 * (k - 1) + 5] \div Scale]

RECURSIVE SumSeq(_)
SumSeq(q) == IF q = <<>> THEN 0 ELSE Head(q) + SumSeq(Tail(q))

C10_CountsSumToStore ==
    last.op = "get_spatial_chunks"
    => SumSeq(ChunkCounts(last.ret)) = Len(all_atoms)

\* the tier the four distance ranges assign to distance d under factor a
RangeTier(d, a) ==
    CHOOSE tier \in 0..3 :
        \/ tier = 3 /\ 0 <= d /\ d <= 10 * Scale * a
        \/ tier = 2 /\ 10 * Scale * a < d /\ d <= 20 * Scale * a
        \/ tier = 1 /\ 20 * Scale * a < d /\ d <= 50 * Scale * a
        \/ tier = 0 /\ 50 * Scale * a < d

\* C11: under one aggression factor every distance from 0 upwards gets
\* exactly one tier, the one of the range it lies in (3 up to 10a, 2 up to
\* 20a, 1 up to 50a, 0 beyond), and of two distances the farther one never
\* gets the finer tier.
C11_TierPartition ==
    probe.fn = "tier_done" =>
        /\ probe.tier_near \in 0..3
        /\ probe.tier_near = RangeTier(probe.near, probe.aggression)
        /\ probe.tier_far = RangeTier(probe.far, probe.aggression)
        /\ probe.tier_far <= probe.tier_near

\* a distance exactly on the medium threshold 10a kept in tier 3, compared
\* with a distance beyond the point threshold 50a
C11_Witness ==
    /\ probe.fn = "tier_done"
    /\ probe.aggression = 2
    /\ probe.near = 10 * Scale * 2
    /\ probe.tier_near = 3
    /\ probe.tier_far = 0

\* the factor of the step function: doubled at every one of the five
\* steps that the count lies above
StepFactor(count) ==
    2 ^ Cardinality({step \in {1000, 10000, 100000, 1000000, 10000000} : count > step})

\* C12: the aggression factor is the step function of the total count
\* (1 up to 1000, then 2, 4, 8, 16 up to 10,000,000 and 32 above, so 8
\* for 1,000,000); a load makes the requested count the total count, a
\* query that rebuilds tiers every record with the factor of that count,
\* and no call other than a load changes the factor.
C12_AggressionSteps ==
    [][/\ probe'.fn = "aggr_done" => probe'.factor = StepFactor(probe'.count)
       /\ last'.op \in {"load_atoms_from_file", "generate_atoms"}
             => total_atom_count' = last'.count
       /\ (last'.op \in QueryOps /\ last'.ran)
             => \A i \in 1..Len(hist'.ret) :
                   hist'.ret[i].lod_level =
                       lod_level(DistanceTo(hist'.obs.camera, hist'.ret[i]),
                                 StepFactor(total_atom_count'))
       /\ StepFactor(total_atom_count') # StepFactor(total_atom_count)
             => last'.op \in LoadOps]_vars

\* a rebuilding query on a grid of 1001 atoms that gave the finest tier to
\* a record farther than 10 units away: the factor used was 2
C12_Witness ==
    /\ last.op \in QueryOps
    /\ last.ran
    /\ total_atom_count = 1001
    /\ \E i \in 1..Len(hist.ret) :
          /\ DistanceTo(hist.obs.camera, hist.ret[i]) > 10 * Scale
          /\ hist.ret[i].lod_level = 3

\* the record is a copy of the atom's position and element
CopyOf(record, atom) ==
    /\ record.x = atom.x
    /\ record.y = atom.y
    /\ record.z = atom.z
    /\ record.element = atom.element

\* the atom is at the observer's position or inside the cone of the
\* frustum test
PassesFrustum(o, atom) ==
    LET distance == DistanceTo(o.camera, atom)
    IN  \/ distance = 0
        \/ DotProduct(o.camera, view_normalized(o.camera), atom, distance)
              >= Cos(FLit(o.fov, 6, 10))

\* C13: in the result of a query that rebuilt the cache no record lies
\* farther from the observer than 0.8 times the far plane, and every
\* stored particle nearer than that which passes the frustum test (or is
\* at distance zero) has a record.
C13_DistanceCull ==
    (last.op \in QueryOps /\ last.ran) =>
        LET o == hist.obs
            max_distance == FLit(o.far, 8, 10)
        IN  /\ \A i \in 1..Len(hist.ret) :
                  ~Gt(DistanceTo(o.camera, hist.ret[i]), max_distance)
            /\ \A k \in 1..Len(all_atoms) :
                  (/\ ~IsNaN(DistanceTo(o.camera, all_atoms[k]))
                   /\ DistanceTo(o.camera, all_atoms[k]) < max_distance
                   /\ PassesFrustum(o, all_atoms[k]))
                  => \E i \in 1..Len(hist.ret) : CopyOf(hist.ret[i], all_atoms[k])

\* a rebuilding query that kept some atoms and left out an atom beyond
\* 0.8 times the far plane
C13_Witness ==
    /\ last.op \in QueryOps
    /\ last.ran
    /\ hist.ret # <<>>
    /\ \E k \in 1..Len(all_atoms) :
          Gt(DistanceTo(hist.obs.camera, all_atoms[k]), FLit(hist.obs.far, 8, 10))

\* C14: get_atom_data(index) returns nothing exactly when the index is
\* not below the count reported by get_atom_count or the loaded total
\* exceeds 2, and so returns a record for every index below that count.
C14_AtomDataMatchesCount ==
    last.op = "get_atom_data" =>
        (last.ret = None <=>
            (\/ last.arg >= get_atom_count(total_atom_count)
             \/ total_atom_count > 2))

\* the two-particle molecule is loaded
MoleculeLoaded == total_atom_count = 2 /\ Len(all_atoms) = 2

\* C15 as stated: with the two-particle molecule loaded, get_atom_data(1)
\* reports x equal to the base 0.92 at time 0 and 0.09 above the base
\* where sin(time) = 1, and get_atom_data(0) reports the stored x.
C15_OffsetFromZero ==
    (MoleculeLoaded /\ last.op = "get_atom_data" /\ last.arg < 2) =>
        /\ (last.arg = 1 /\ time = 0) => last.ret.val.x = BondLength
        /\ (last.arg = 1 /\ Sin(time) = Scale) => last.ret.val.x = BondLength + 180
        /\ last.arg = 0 => last.ret.val.x = all_atoms[1].x

\* C15 amended: with the two-particle molecule loaded, get_atom_data(1)
\* reports x 0.09 above the base 0.92 at time 0 and 0.18 above the base
\* where sin(time) = 1, and get_atom_data(0) reports the stored x.
C15_OffsetFromHalf ==
    (MoleculeLoaded /\ last.op = "get_atom_data" /\ last.arg < 2) =>
        /\ (last.arg = 1 /\ time = 0) => last.ret.val.x = BondLength + 180
        /\ (last.arg = 1 /\ Sin(time) = Scale) => last.ret.val.x = BondLength + 360
        /\ last.arg = 0 => last.ret.val.x = all_atoms[1].x

\* get_atom_data(1) called on the molecule at a time where sin(time) = 1
C15_Witness ==
    /\ MoleculeLoaded
    /\ last.op = "get_atom_data"
    /\ last.arg = 1
    /\ time > 0
    /\ Sin(time) = Scale
    /\ last.ret.some

\* the records from index i on are copies of atoms taken in ascending
\* order from the atoms at index k and above, each atom used at most once
RECURSIVE CopiedInOrder(_, _, _, _)
CopiedInOrder(records, i, atoms, k) ==
    IF i > Len(records) THEN TRUE
    ELSE IF k > Len(atoms) THEN FALSE
    ELSE IF CopyOf(records[i], atoms[k])
    THEN CopiedInOrder(records, i + 1, atoms, k + 1)
    ELSE CopiedInOrder(records, i, atoms, k + 1)

\* C16: the records a query returns are copies (position and element) of
\* stored particles taken in ascending store order: a subsequence of the
\* store with no particle twice and none out of order.
C16_StoreOrderPreserved ==
    last.op \in QueryOps => CopiedInOrder(hist.ret, 1, all_atoms, 1)

\* a query that returned at least two records and left out a particle
\* stored before the last of them
C16_Witness ==
    /\ last.op \in QueryOps
    /\ Len(hist.ret) >= 2
    /\ Len(hist.ret) < Len(all_atoms)
    /\ \E k \in (Len(hist.ret) + 1)..Len(all_atoms) :
          CopyOf(hist.ret[Len(hist.ret)], all_atoms[k])

\* C17: set_animation_speed leaves the clock, the store, the cached
\* fingerprint and the cached records as they are, so a query made right
\* after it with the fingerprint of the query before it does not rebuild
\* and returns the same records; a tick is what empties the cache.
C17_SpeedKeepsCache ==
    [][/\ last'.op = "set_animation_speed"
             => UNCHANGED <<time, all_atoms, total_atom_count, grid_size,
                            current_camera_hash, cached_visible_atoms>>
       /\ (/\ last.op = "set_animation_speed"
           /\ hist.fresh
           /\ last'.op \in QueryOps
           /\ HashOf(hist'.obs) = HashOf(hist.obs))
             => (~last'.ran /\ hist'.ret = hist.ret)
       /\ last'.op = "update"
             => (current_camera_hash' = SentinelHash /\ cached_visible_atoms' = <<>>)]_vars

\* set_animation_speed paused the animation while the cache held the
\* records of an earlier query
C17_Witness ==
    /\ last.op = "set_animation_speed"
    /\ animation_speed = 0
    /\ hist.fresh
    /\ current_camera_hash # SentinelHash
    /\ cached_visible_atoms # <<>>

\* C18: a rebuilding query whose observer position has a NaN coordinate
\* returns no record: every particle's distance is NaN and the particle
\* is left out.
C18_NaNObserverExcludesAll ==
    (/\ last.op \in QueryOps
     /\ last.ran
     /\ IsNaN(hist.obs.camera.x))
    => hist.ret = <<>>

\* what one run of the evaluator yields for observer o in this state
FreshNow(o) ==
    recalculate_visibility_for_camera(all_atoms, total_atom_count, time,
        o.camera, o.fov, o.aspect, o.near, o.far)

\* C19: when every query uses the same far plane, each query returns what
\* a run of the evaluator yields from the current store, the current time
\* and the query's own position, target and fov.
C19_CacheTransparent ==
    last.op \in QueryOps => hist.ret = FreshNow(hist.obs)

\* C20: get_bond_data(index) returns a bond for every index below
\* get_bond_count() and nothing for every index at or above it, in every
\* reachable state.
C20_BondDataMatchesCount ==
    last.op = "get_bond_data" =>
        (last.ret # None <=> last.arg < get_bond_count(total_atom_count))

====
